---- MODULE Spec2Model ----
(***************************************************************************)
(* A model of frostparse: the line parser (parser.go, utils.go), the       *)
(* record model (the EventType tables and the Prefix/Suffix unions) and    *)
(* the aggregation engine (summary.go).                                    *)
(*                                                                         *)
(* Text is modelled as text: a line, a field and a token are TLA+ strings  *)
(* and the Go string functions are computed character by character.        *)
(* uint64/int64 values are exact: a magnitude is three decimal limbs       *)
(* <<a, b, c>> standing for a*10^18 + b*10^9 + c.                          *)
(***************************************************************************)
EXTENDS Integers, Sequences, FiniteSets, TLC

(***************************************************************************)
(* Go string functions (package strings)                                   *)
(***************************************************************************)

\* s[i:] with a 1-based i
From(s, i) == SubSeq(s, i, Len(s))

\* strings.HasPrefix(s, p)
HasPrefix(s, p) == Len(s) >= Len(p) /\ SubSeq(s, 1, Len(p)) = p

\* strings.Index(s, sep), 1-based; 0 when sep does not occur in s
Index(s, sep) ==
    LET hits == {i \in 1..(Len(s) - Len(sep) + 1) : SubSeq(s, i, i + Len(sep) - 1) = sep}
    IN  IF hits = {} THEN 0 ELSE CHOOSE i \in hits : \A j \in hits : i <= j

\* strings.Contains(s, sub)
Contains(s, sub) == Index(s, sub) > 0

\* the positions at which sep occurs in s
Occurrences(s, sep) ==
    {i \in 1..(Len(s) - Len(sep) + 1) : SubSeq(s, i, i + Len(sep) - 1) = sep}

\* the pieces of s from position from on, cut at the occurrences in hits
\* taken left to right without overlap
RECURSIVE CutAt(_, _, _, _)
CutAt(s, n, hits, from) ==
    LET ahead == {h \in hits : h >= from}
    IN  IF ahead = {} THEN <<From(s, from)>>
        ELSE LET k == CHOOSE h \in ahead : \A g \in ahead : h <= g
             IN  <<SubSeq(s, from, k - 1)>> \o CutAt(s, n, hits, k + n)

\* strings.Split(s, sep) for a non-empty sep: s cut at EVERY occurrence of
\* sep, scanning left to right
Split(s, sep) == CutAt(s, Len(sep), Occurrences(s, sep), 1)

\* the pieces of a sequence joined without a separator
RECURSIVE Concat(_)
Concat(pieces) ==
    IF Len(pieces) = 0 THEN "" ELSE pieces[1] \o Concat(Tail(pieces))

\* strings.ReplaceAll(s, old, "") and strings.Replace(s, old, "", -1)
Remove(s, old) == Concat(Split(s, old))

\* removeQuoteString
removeQuoteString(s) == Remove(s, "\"")

(***************************************************************************)
(* 64-bit integers                                                         *)
(***************************************************************************)

LimbBase == 10^9

\* 2^64 and 2^63 in limbs
Two64 == <<18, 446744073, 709551616>>
Two63 == <<9, 223372036, 854775808>>

\* the limbs of a small natural number
U64(n) == <<0, n \div LimbBase, n % LimbBase>>

LimbLess(x, y) ==
    \/ x[1] < y[1]
    \/ x[1] = y[1] /\ x[2] < y[2]
    \/ x[1] = y[1] /\ x[2] = y[2] /\ x[3] < y[3]

\* x + y without reduction
LimbAdd(x, y) ==
    LET c  == x[3] + y[3]
        b  == x[2] + y[2] + (c \div LimbBase)
        a  == x[1] + y[1] + (b \div LimbBase)
    IN  <<a, b % LimbBase, c % LimbBase>>

\* x - y for x >= y
LimbSub(x, y) ==
    LET c  == x[3] - y[3]
        bc == IF c < 0 THEN 1 ELSE 0
        b  == x[2] - y[2] - bc
        bb == IF b < 0 THEN 1 ELSE 0
    IN  <<x[1] - y[1] - bb, (b + LimbBase) % LimbBase, (c + LimbBase) % LimbBase>>

\* uint64 addition: x + y mod 2^64
Add64(x, y) ==
    LET s == LimbAdd(x, y)
    IN  IF LimbLess(s, Two64) THEN s ELSE LimbSub(s, Two64)

\* an int64 is [neg, mag]; uint64(i) of an int64 i is two's complement
Uint64OfInt64(i) ==
    IF i.neg /\ i.mag # U64(0) THEN LimbSub(Two64, i.mag) ELSE i.mag

\* int64(u) (and int(u) on a 64-bit build) of a uint64 u
Int64OfUint64(u) ==
    IF LimbLess(u, Two63) THEN [neg |-> FALSE, mag |-> u]
    ELSE [neg |-> TRUE, mag |-> LimbSub(Two64, u)]

I64(n) == [neg |-> n < 0, mag |-> U64(IF n < 0 THEN -n ELSE n)]

(***************************************************************************)
(* strconv                                                                 *)
(***************************************************************************)

IsDigit(c) == c \in {"0", "1", "2", "3", "4", "5", "6", "7", "8", "9"}

DigitVal(c) ==
    CASE c = "0" -> 0 [] c = "1" -> 1 [] c = "2" -> 2 [] c = "3" -> 3
      [] c = "4" -> 4 [] c = "5" -> 5 [] c = "6" -> 6 [] c = "7" -> 7
      [] c = "8" -> 8 [] c = "9" -> 9

AllDigits(s) == \A k \in 1..Len(s) : IsDigit(SubSeq(s, k, k))

\* the value of at most nine decimal digits
RECURSIVE NatOf(_)
NatOf(s) ==
    IF Len(s) = 0 THEN 0
    ELSE NatOf(SubSeq(s, 1, Len(s) - 1)) * 10 + DigitVal(SubSeq(s, Len(s), Len(s)))

RECURSIVE StripZeros(_)
StripZeros(s) ==
    IF Len(s) > 1 /\ SubSeq(s, 1, 1) = "0" THEN StripZeros(From(s, 2)) ELSE s

\* the limbs of a digit string of at most 27 significant digits
LimbsOf(d) ==
    LET n == Len(d)
        lo == SubSeq(d, IF n > 9 THEN n - 8 ELSE 1, n)
        mi == IF n > 9 THEN SubSeq(d, IF n > 18 THEN n - 17 ELSE 1, n - 9) ELSE ""
        hi == IF n > 18 THEN SubSeq(d, 1, n - 18) ELSE ""
    IN  <<NatOf(hi), NatOf(mi), NatOf(lo)>>

Err == [ok |-> FALSE]
Ok(v) == [ok |-> TRUE, v |-> v]

\* strconv.ParseInt(s, 10, 64): an optional sign, then one or more decimal
\* digits; a value outside [-2^63, 2^63 - 1] is a range error
ParseInt(s) ==
    LET signed == Len(s) > 0 /\ SubSeq(s, 1, 1) \in {"+", "-"}
        neg    == signed /\ SubSeq(s, 1, 1) = "-"
        body   == IF signed THEN From(s, 2) ELSE s
        d      == StripZeros(body)
        mag    == LimbsOf(d)
    IN  IF Len(body) = 0 \/ ~AllDigits(body) THEN Err
        ELSE IF Len(d) > 19 THEN Err
        ELSE IF neg /\ LimbLess(Two63, mag) THEN Err
        ELSE IF ~neg /\ ~LimbLess(mag, Two63) THEN Err
        ELSE Ok([neg |-> neg /\ mag # U64(0), mag |-> mag])

\* strconv.ParseBool(s)
ParseBool(s) ==
    IF s \in {"1", "t", "T", "TRUE", "true", "True"} THEN Ok(TRUE)
    ELSE IF s \in {"0", "f", "F", "FALSE", "false", "False"} THEN Ok(FALSE)
    ELSE Err

\* strconv.Itoa / fmt's %d of a natural number
RECURSIVE FormatDec(_)
FormatDec(n) ==
    LET c == SubSeq("0123456789", (n % 10) + 1, (n % 10) + 1)
    IN  IF n < 10 THEN c ELSE FormatDec(n \div 10) \o c

\* a call on a result: a panic in the argument is the panic of the call
AndThen(r, F(_)) == IF r.ok THEN F(r.v) ELSE Err

\* eventParts[k] (0-based): an index past the end is a runtime panic
At(parts, k) == IF k + 1 <= Len(parts) THEN Ok(parts[k + 1]) ELSE Err

(***************************************************************************)
(* time.Parse with the layout "2006/1/_2 15:04:05.000"                     *)
(* A Timestamp is <<month, day, millisecond of the day>> in the reference  *)
(* year.                                                                   *)
(***************************************************************************)

\* the year the log is read in: time.Now().Year()
RefYear == 2023

IsLeap(y) == y % 4 = 0 /\ (y % 100 # 0 \/ y % 400 = 0)

daysIn(m, y) ==
    IF m = 2 THEN (IF IsLeap(y) THEN 29 ELSE 28)
    ELSE IF m \in {4, 6, 9, 11} THEN 30 ELSE 31

NoNum == [ok |-> FALSE, n |-> 0, rest |-> ""]

\* time.getnum: one or two digits, exactly two when fixed
getnum(s, fixed) ==
    IF Len(s) = 0 \/ ~IsDigit(SubSeq(s, 1, 1)) THEN NoNum
    ELSE IF Len(s) < 2 \/ ~IsDigit(SubSeq(s, 2, 2))
         THEN IF fixed THEN NoNum
              ELSE [ok |-> TRUE, n |-> NatOf(SubSeq(s, 1, 1)), rest |-> From(s, 2)]
    ELSE [ok |-> TRUE, n |-> NatOf(SubSeq(s, 1, 2)), rest |-> From(s, 3)]

\* a literal character of the layout
skip(r, c) ==
    IF r.ok /\ Len(r.rest) > 0 /\ SubSeq(r.rest, 1, 1) = c
    THEN [r EXCEPT !.rest = From(r.rest, 2)]
    ELSE NoNum

\* the next element of the layout, read where r stopped
next(r, fixed) == IF r.ok THEN getnum(r.rest, fixed) ELSE NoNum

\* time.atoi on the three fraction digits: an optional sign, then digits only
atoi(s) ==
    LET signed == Len(s) > 0 /\ SubSeq(s, 1, 1) \in {"+", "-"}
        body   == IF signed THEN From(s, 2) ELSE s
    IN  IF ~AllDigits(body) THEN [ok |-> FALSE, n |-> 0]
        ELSE [ok |-> TRUE,
              n |-> IF signed /\ SubSeq(s, 1, 1) = "-" THEN -NatOf(body) ELSE NatOf(body)]

\* stdFracSecond0 with three digits: ".mmm" (a comma is accepted too)
parseNanoseconds(r) ==
    IF ~r.ok \/ Len(r.rest) < 4 \/ SubSeq(r.rest, 1, 1) \notin {".", ","} THEN NoNum
    ELSE LET f == atoi(SubSeq(r.rest, 2, 4))
         IN  IF ~f.ok \/ f.n < 0 THEN NoNum
             ELSE [ok |-> TRUE, n |-> f.n, rest |-> From(r.rest, 5)]

\* time.Parse(combatLogTimestampFormat, t)
timeParse(t) ==
    LET yOk   == Len(t) >= 4 /\ AllDigits(SubSeq(t, 1, 4))
        y     == IF yOk THEN [ok |-> TRUE, n |-> NatOf(SubSeq(t, 1, 4)), rest |-> From(t, 5)]
                 ELSE NoNum
        mo    == next(skip(y, "/"), FALSE)
        moOk  == mo.ok /\ mo.n >= 1 /\ mo.n <= 12
        s1    == skip(mo, "/")
        pad   == IF s1.ok /\ Len(s1.rest) > 0 /\ SubSeq(s1.rest, 1, 1) = " "
                 THEN [s1 EXCEPT !.rest = From(s1.rest, 2)] ELSE s1
        d     == next(pad, FALSE)
        h     == next(skip(d, " "), FALSE)
        mi    == next(skip(h, ":"), TRUE)
        se    == next(skip(mi, ":"), TRUE)
        fr    == parseNanoseconds(se)
    IN  IF /\ fr.ok /\ fr.rest = "" /\ moOk
           /\ h.n < 24 /\ mi.n < 60 /\ se.n < 60
           /\ d.n >= 1 /\ d.n <= daysIn(mo.n, y.n)
        THEN Ok(<<mo.n, d.n, ((h.n * 60 + mi.n) * 60 + se.n) * 1000 + fr.n>>)
        ELSE Err

\* mustParseTimestamp: a parse error panics
mustParseTimestamp(t) == timeParse(t)

\* t.Before(u)
Before(t, u) ==
    \/ t[1] < u[1]
    \/ t[1] = u[1] /\ t[2] < u[2]
    \/ t[1] = u[1] /\ t[2] = u[2] /\ t[3] < u[3]

\* the timestamp used as it is
TruncateNot(t, d) == t

\* t.Truncate(d), d in milliseconds: Go rounds down to a multiple of d since
\* the zero time, which is midnight-aligned; for a d that divides a day this
\* is a multiple of d since midnight
Truncate(t, d) == IF d <= 0 THEN t ELSE <<t[1], t[2], t[3] - (t[3] % d)>>

(***************************************************************************)
(* utils.go                                                                *)
(***************************************************************************)

\* mustParseInt: an int64, or a panic
mustParseInt(s) == ParseInt(s)

\* mustParseUint: ParseInt (signed, base 10), then the conversion uint64(i)
mustParseUint(s) ==
    LET r == ParseInt(s)
    IN  IF r.ok THEN Ok(Uint64OfInt64(r.v)) ELSE Err

\* mustParseHexInt: every "0x" is removed and the rest is read by mustParseUint
mustParseHexInt(s) == mustParseUint(Remove(s, "0x"))

\* SpellSchool(u): the conversion of a uint64 to the int type SpellSchool
SpellSchoolOf(r) == IF r.ok THEN Ok(Int64OfUint64(r.v)) ELSE Err

mustParseSpellSchool(s) ==
    IF HasPrefix(s, "0x") THEN SpellSchoolOf(mustParseHexInt(s))
    ELSE SpellSchoolOf(mustParseUint(s))

\* the sentinel test left out
mustParseIntOrNilStrict(s) == mustParseUint(s)

mustParseIntOrNil(s) ==
    IF Contains(s, "nil") THEN Ok(U64(0)) ELSE mustParseUint(s)

\* parseNilBool never panics: a ParseBool error is false
parseNilBool(s) ==
    IF Contains(s, "nil") THEN Ok(FALSE)
    ELSE LET b == ParseBool(s) IN IF b.ok THEN Ok(b.v) ELSE Ok(FALSE)

(***************************************************************************)
(* The record model                                                        *)
(***************************************************************************)

DamageShield          == "DAMAGE_SHIELD"
DamageShieldMissed    == "DAMAGE_SHIELD_MISSED"
DamageSplit           == "DAMAGE_SPLIT"
EnchantApplied        == "ENCHANT_APPLIED"
EnchantRemoved        == "ENCHANT_REMOVED"
EnvironmentalDamage   == "ENVIRONMENTAL_DAMAGE"
PartyKill             == "PARTY_KILL"
RangeDamage           == "RANGE_DAMAGE"
RangeMissed           == "RANGE_MISSED"
SpellAuraApplied      == "SPELL_AURA_APPLIED"
SpellAuraAppliedDose  == "SPELL_AURA_APPLIED_DOSE"
SpellAuraRefresh      == "SPELL_AURA_REFRESH"
SpellAuraRemoved      == "SPELL_AURA_REMOVED"
SpellAuraRemovedDose  == "SPELL_AURA_REMOVED_DOSE"
SpellCastFailed       == "SPELL_CAST_FAILED"
SpellCastStart        == "SPELL_CAST_START"
SpellCastSuccess      == "SPELL_CAST_SUCCESS"
SpellCreate           == "SPELL_CREATE"
SpellDamage           == "SPELL_DAMAGE"
SpellDispell          == "SPELL_DISPEL"
SpellDrain            == "SPELL_DRAIN"
SpellEnergize         == "SPELL_ENERGIZE"
SpellExtraAttacks     == "SPELL_EXTRA_ATTACKS"
SpellHeal             == "SPELL_HEAL"
SpellInterrupt        == "SPELL_INTERRUPT"
SpellInstakill        == "SPELL_INSTAKILL"
SpellMissed           == "SPELL_MISSED"
SpellPeriodicDamage   == "SPELL_PERIODIC_DAMAGE"
SpellPeriodicEnergize == "SPELL_PERIODIC_ENERGIZE"
SpellPeriodicHeal     == "SPELL_PERIODIC_HEAL"
SpellPeriodicLeech    == "SPELL_PERIODIC_LEECH"
SpellPeriodicMissed   == "SPELL_PERIODIC_MISSED"
SpellResurrect        == "SPELL_RESURRECT"
SpellSummon           == "SPELL_SUMMON"
SwingDamage           == "SWING_DAMAGE"
SwingMissed           == "SWING_MISSED"
UnitDied              == "UNIT_DIED"

\* the declared EventType constants
EventTypes ==
    { DamageShield, DamageShieldMissed, DamageSplit, EnchantApplied,
      EnchantRemoved, EnvironmentalDamage, PartyKill, RangeDamage, RangeMissed,
      SpellAuraApplied, SpellAuraAppliedDose, SpellAuraRefresh,
      SpellAuraRemoved, SpellAuraRemovedDose, SpellCastFailed, SpellCastStart,
      SpellCastSuccess, SpellCreate, SpellDamage, SpellDispell, SpellDrain,
      SpellEnergize, SpellExtraAttacks, SpellHeal, SpellInterrupt,
      SpellInstakill, SpellMissed, SpellPeriodicDamage, SpellPeriodicEnergize,
      SpellPeriodicHeal, SpellPeriodicLeech, SpellPeriodicMissed,
      SpellResurrect, SpellSummon, SwingDamage, SwingMissed, UnitDied }

DamageEvents ==
    { DamageShield, DamageSplit, RangeDamage, SpellDamage, SpellDrain,
      SpellExtraAttacks, SpellInstakill, SpellPeriodicDamage,
      SpellPeriodicLeech, SwingDamage }

HealEvents == { SpellHeal, SpellPeriodicHeal, SpellPeriodicLeech }

OverlayEvents ==
    { SpellAuraApplied, SpellAuraAppliedDose, SpellAuraRemoved,
      SpellAuraRefresh, SpellAuraRemovedDose, SpellDispell, SpellInterrupt,
      UnitDied }

BossNames ==
    { "Lord Marrowgar", "Lady Deathwhisper", "The Skybreaker",
      "Orgrim's Hammer", "Deathbringer Saurfang", "Rotface", "Festergut",
      "Professor Putricide", "Valithria Dreamwalker", "Sindragosa",
      "The Lich King" }

\* a nil pointer
NIL == [nil |-> TRUE]

\* the members of Prefix and of Suffix
PrefixMembers == {"SpellAndRangePrefix", "EnchantPrefix", "EnvironmentalPrefix"}

SuffixMembers ==
    { "DamageSuffix", "AuraSuffix", "EnergizeSuffix", "MissSuffix", "HealSuffix",
      "InterruptSuffix", "ExtraAttacksSuffix", "DispelOrStolenSuffix",
      "LeechOrDrainSuffix" }

\* Prefix{} and Suffix{}: every member nil
Prefix == [m \in PrefixMembers |-> Ok(NIL)]
Suffix == [m \in SuffixMembers |-> Ok(NIL)]

(***************************************************************************)
(* parser.go: the prefix and suffix readers                                *)
(***************************************************************************)

\* a struct literal: built when every field expression returned, a panic
\* when one of them panicked
Struct(fs) ==
    IF \A k \in DOMAIN fs : fs[k].ok THEN Ok([k \in DOMAIN fs |-> fs[k].v]) ELSE Err

Plain(s) == Ok(s)
Unquoted(s) == Ok(removeQuoteString(s))
\* PowerType(mustParseUint(s)) and SpellSchool(mustParseUint(s))
IntOfUint(s) == SpellSchoolOf(mustParseUint(s))

parseSpellPrefix(eventParts) ==
    Struct([SpellID     |-> AndThen(At(eventParts, 7), mustParseUint),
            SpellName   |-> AndThen(At(eventParts, 8), Unquoted),
            SpellSchool |-> AndThen(At(eventParts, 9), mustParseSpellSchool)])

parseDamageSuffix(eventParts, initialOffset) ==
    Struct([Amount      |-> AndThen(At(eventParts, initialOffset), mustParseUint),
            Overkill    |-> AndThen(At(eventParts, initialOffset + 1), mustParseUint),
            SpellSchool |-> AndThen(At(eventParts, initialOffset + 2), mustParseInt),
            Resisted    |-> AndThen(At(eventParts, initialOffset + 3), mustParseIntOrNil),
            Blocked     |-> AndThen(At(eventParts, initialOffset + 4), mustParseIntOrNil),
            Absorbed    |-> AndThen(At(eventParts, initialOffset + 5), mustParseIntOrNil),
            Critical    |-> AndThen(At(eventParts, initialOffset + 6), parseNilBool)])

parseAuraSuffix(eventParts) ==
    Struct([AuraType |-> AndThen(At(eventParts, 10), Unquoted)])

parseEnergizeSuffix(eventParts) ==
    Struct([Amount    |-> AndThen(At(eventParts, 10), mustParseInt),
            PowerType |-> AndThen(At(eventParts, 11), IntOfUint)])

parseMissSuffix(eventParts) ==
    Struct([MissType |-> At(eventParts, 7)])

parseHealSuffix(eventParts) ==
    Struct([Amount      |-> AndThen(At(eventParts, 10), mustParseUint),
            Overhealing |-> AndThen(At(eventParts, 11), mustParseUint),
            Absorbed    |-> AndThen(At(eventParts, 12), mustParseUint),
            Critical    |-> AndThen(At(eventParts, 13), parseNilBool)])

parseInterruptSuffix(eventParts) ==
    Struct([ExtraSpellID     |-> AndThen(At(eventParts, 10), mustParseUint),
            ExtraSpellName   |-> AndThen(At(eventParts, 11), Unquoted),
            ExtraSpellSchool |-> AndThen(At(eventParts, 12), IntOfUint)])

parseExtraAttackSuffix(eventParts) ==
    Struct([Amount |-> AndThen(At(eventParts, 10), mustParseUint)])

parseEnchantPrefix(eventParts) ==
    Struct([SpellName |-> AndThen(At(eventParts, 7), Unquoted),
            ItemID    |-> AndThen(At(eventParts, 8), mustParseUint),
            ItemName  |-> AndThen(At(eventParts, 9), Unquoted)])

\* the AuraType member of DispelOrStolenSuffix is left at its zero value
parseDispellOrStolenSuffix(eventParts) ==
    Struct([ExtraSpellID     |-> AndThen(At(eventParts, 10), mustParseUint),
            ExtraSpellName   |-> AndThen(At(eventParts, 11), Unquoted),
            ExtraSpellSchool |-> AndThen(At(eventParts, 12), mustParseSpellSchool),
            AuraType         |-> Ok("")])

parseLeachOrDrainSuffix(eventParts) ==
    Struct([Amount      |-> AndThen(At(eventParts, 10), mustParseUint),
            PowerType   |-> AndThen(At(eventParts, 11), IntOfUint),
            ExtraAmount |-> AndThen(At(eventParts, 12), mustParseUint)])

parseEnvironmentalPrefix(eventParts) ==
    Struct([EnvironmentalType |-> At(eventParts, 7)])

(***************************************************************************)
(* parser.go: parseRow                                                     *)
(***************************************************************************)

\* the assignments a case of the switch makes to prefix and suffix
Set(prefix, suffix) == [prefix |-> prefix, suffix |-> suffix]
\* a case that stores its suffix in the DamageSuffix member whatever it read
SpellWithDamageMember(eventParts, member, value) ==
    Set([Prefix EXCEPT !.SpellAndRangePrefix = parseSpellPrefix(eventParts)],
        [Suffix EXCEPT !.DamageSuffix = value])

SpellWith(eventParts, member, value) ==
    Set([Prefix EXCEPT !.SpellAndRangePrefix = parseSpellPrefix(eventParts)],
        [Suffix EXCEPT ![member] = value])
SpellOnly(eventParts) ==
    Set([Prefix EXCEPT !.SpellAndRangePrefix = parseSpellPrefix(eventParts)], Suffix)

\* an unknown event type read like a spell event
defaultCaseSpell(eventParts) == SpellOnly(eventParts)

\* default: nothing is assigned
defaultCase(eventParts) == Set(Prefix, Suffix)

\* the switch on eventType
Dispatch(eventType, eventParts) ==
    CASE eventType = UnitDied -> Set(Prefix, Suffix)
      [] eventType = SpellInstakill -> Set(Prefix, Suffix)
      [] eventType = PartyKill -> Set(Prefix, Suffix)
      [] eventType = SwingDamage ->
            Set(Prefix, [Suffix EXCEPT !.DamageSuffix = parseDamageSuffix(eventParts, 7)])
      [] eventType \in {SpellDamage, SpellPeriodicDamage, DamageShield, DamageSplit,
                        RangeDamage} ->
            SpellWith(eventParts, "DamageSuffix", parseDamageSuffix(eventParts, 10))
      [] eventType \in {SpellDrain, SpellPeriodicLeech} ->
            SpellWith(eventParts, "LeechOrDrainSuffix", parseLeachOrDrainSuffix(eventParts))
      [] eventType = EnvironmentalDamage ->
            Set([Prefix EXCEPT !.EnvironmentalPrefix = parseEnvironmentalPrefix(eventParts)],
                [Suffix EXCEPT !.DamageSuffix = parseDamageSuffix(eventParts, 8)])
      [] eventType \in {RangeMissed, SpellMissed, SpellPeriodicMissed,
                        DamageShieldMissed} ->
            SpellWith(eventParts, "MissSuffix", parseMissSuffix(eventParts))
      [] eventType \in {SpellAuraApplied, SpellAuraRemoved, SpellAuraRefresh,
                        SpellAuraAppliedDose} ->
            SpellWith(eventParts, "AuraSuffix", parseAuraSuffix(eventParts))
      [] eventType \in {SpellHeal, SpellPeriodicHeal} ->
            SpellWith(eventParts, "HealSuffix", parseHealSuffix(eventParts))
      [] eventType \in {SpellCastStart, SpellCastFailed, SpellCreate,
                        SpellAuraRemovedDose, SpellResurrect, SpellSummon,
                        SpellCastSuccess} ->
            SpellOnly(eventParts)
      [] eventType \in {SpellEnergize, SpellPeriodicEnergize} ->
            SpellWith(eventParts, "EnergizeSuffix", parseEnergizeSuffix(eventParts))
      [] eventType = SwingMissed ->
            Set(Prefix, [Suffix EXCEPT !.MissSuffix = parseMissSuffix(eventParts)])
      [] eventType = SpellInterrupt ->
            SpellWith(eventParts, "InterruptSuffix", parseInterruptSuffix(eventParts))
      [] eventType = SpellExtraAttacks ->
            SpellWith(eventParts, "ExtraAttacksSuffix", parseExtraAttackSuffix(eventParts))
      [] eventType \in {EnchantApplied, EnchantRemoved} ->
            Set([Prefix EXCEPT !.EnchantPrefix = parseEnchantPrefix(eventParts)], Suffix)
      [] eventType = SpellDispell ->
            SpellWith(eventParts, "DispelOrStolenSuffix",
                      parseDispellOrStolenSuffix(eventParts))
      [] OTHER -> defaultCase(eventParts)

\* the default case prints "unknown eventType: ..."
PrintsUnknown(eventType) == eventType \notin EventTypes

\* BaseCombatEvent{...}: the header fields, read at fixed indexes
baseCombatEvent(t, eventParts) ==
    Struct([Timestamp  |-> t,
            EventType  |-> At(eventParts, 0),
            SourceID   |-> At(eventParts, 1),
            SourceName |-> AndThen(At(eventParts, 2), Unquoted),
            TargetID   |-> At(eventParts, 4),
            TargetName |-> AndThen(At(eventParts, 5), Unquoted)])

\* CombatLogRecord{BaseCombatEvent: be, Prefix: prefix, Suffix: suffix}
combatLogRecord(be, d) ==
    IF \/ \E m \in PrefixMembers : ~d.prefix[m].ok
       \/ \E m \in SuffixMembers : ~d.suffix[m].ok THEN Err
    ELSE Ok([k \in DOMAIN be \cup PrefixMembers \cup SuffixMembers |->
                IF k \in PrefixMembers THEN d.prefix[k].v
                ELSE IF k \in SuffixMembers THEN d.suffix[k].v
                ELSE be[k]])

\* parseRow from eventParts := strings.Split(s[1], ",") on
parseEvent(t, eventParts) ==
    LET be == baseCombatEvent(t, eventParts)
    IN  IF ~be.ok THEN Err
        ELSE combatLogRecord(be.v, Dispatch(be.v.EventType, eventParts))

\* parseRow from s := strings.Split(data, "  ") on: s[1] of a line without
\* the separator is an index out of range
parseSegments(year, s) ==
    LET t == mustParseTimestamp(FormatDec(year) \o "/" \o s[1])
    IN  IF ~t.ok \/ Len(s) < 2 THEN Err
        ELSE parseEvent(t, Split(s[2], ","))

\* parseRow(startTime, data), year = startTime.Year(): the record, or a panic
parseRow(year, data) == parseSegments(year, Split(data, "  "))

(***************************************************************************)
(* utils.go: the field classifier                                          *)
(***************************************************************************)

\* the leech events left to the healing branch
isDamageEventButLeech(c) == c.EventType \in DamageEvents \ {SpellPeriodicLeech}

isDamageEvent(c)  == c.EventType \in DamageEvents
isHealingEvent(c) == c.EventType \in HealEvents
isOverlayEvent(c) == c.EventType \in OverlayEvents
isBossName(s)     == s \in BossNames
isBossID(v)       == HasPrefix(v, "0xF15")
isNPCID(v)        == HasPrefix(v, "0xF13")
isPlayerID(v)     == HasPrefix(v, "0x07")

(***************************************************************************)
(* summary.go: the aggregation engine                                      *)
(***************************************************************************)

\* time.Second * 30, in milliseconds
TimeResolution == 30000

\* a Go map is a function on the keys it holds
EmptyMap == [k \in {} |-> U64(0)]

\* m[k] = amount written for m[k] += amount
MapAddOverwrite(m, k, amount) ==
    IF k \in DOMAIN m THEN [m EXCEPT ![k] = amount] ELSE (k :> amount) @@ m

\* m[k] += amount: a missing key counts from the zero value
MapAdd(m, k, amount) ==
    IF k \in DOMAIN m THEN [m EXCEPT ![k] = Add64(@, amount)]
    ELSE (k :> amount) @@ m

\* m[k] = v
MapPut(m, k, v) ==
    IF k \in DOMAIN m THEN [m EXCEPT ![k] = v] ELSE (k :> v) @@ m

\* the SummaryStats that Run allocates
NewSummaryStats ==
    [DamageDoneOverTime   |-> EmptyMap,
     HealingpDoneOverTime |-> EmptyMap,
     DamageTakenOverTime  |-> EmptyMap,
     DamageBySource       |-> EmptyMap,
     HealingBySource      |-> EmptyMap,
     DamageTakenBySource  |-> EmptyMap,
     DamageTakenBySpell   |-> EmptyMap,
     InterruptsBySource   |-> EmptyMap,
     DispellsBySource     |-> EmptyMap,
     EncounterOverlays    |-> EmptyMap]

\* the extra-attack amount forgotten
damageAmountOfSuffix(row) ==
    IF row.DamageSuffix # NIL THEN row.DamageSuffix.Amount ELSE U64(0)

\* var amount: the extra-attack amount, else the damage amount, else 0
damageAmount(row) ==
    IF row.ExtraAttacksSuffix # NIL THEN row.ExtraAttacksSuffix.Amount
    ELSE IF row.DamageSuffix # NIL THEN row.DamageSuffix.Amount
    ELSE U64(0)

\* the span started afresh by every record
nextEncounterFresh(c, row, resolution) ==
    [StartTime |-> Truncate(row.Timestamp, resolution),
     EndTime   |-> Truncate(row.Timestamp, resolution)]

\* the Encounter stored for the target of a damage record
nextEncounter(c, row, resolution) ==
    LET now == Truncate(row.Timestamp, resolution)
    IN  IF row.TargetName \notin DOMAIN c.EncounterOverlays
        THEN [StartTime |-> now, EndTime |-> now]
        ELSE [c.EncounterOverlays[row.TargetName] EXCEPT !.EndTime = now]

\* the boss recognized by the target's ID where the code reads its name
updateEncounterByID(c, row, resolution) ==
    IF isBossID(row.TargetID)
    THEN [c EXCEPT !.EncounterOverlays =
                       MapPut(@, row.TargetName, nextEncounter(c, row, resolution))]
    ELSE c

\* if isBossName(row.TargetName) { ... c.EncounterOverlays[...] = encounter }
updateEncounter(c, row, resolution) ==
    IF isBossName(row.TargetName)
    THEN [c EXCEPT !.EncounterOverlays =
                       MapPut(@, row.TargetName, nextEncounter(c, row, resolution))]
    ELSE c

\* (isBossID(src) || isNPCID(src)) && isPlayerID(tgt)
isDamageTaken(row) ==
    (isBossID(row.SourceID) \/ isNPCID(row.SourceID)) /\ isPlayerID(row.TargetID)

\* isPlayerID(src) && isNPCID(tgt) || isBossID(tgt): && binds tighter than ||
isDamageDone(row) ==
    (isPlayerID(row.SourceID) /\ isNPCID(row.TargetID)) \/ isBossID(row.TargetID)

addDamageTaken(c, row, amount, resolution) ==
    LET c1 == [c EXCEPT
                 !.DamageTakenBySource = MapAdd(@, row.SourceName, amount),
                 !.DamageTakenOverTime =
                     MapAdd(@, Truncate(row.Timestamp, resolution), amount)]
    IN  IF row.SpellAndRangePrefix # NIL
        THEN [c1 EXCEPT !.DamageTakenBySpell =
                            MapAdd(@, row.SpellAndRangePrefix.SpellName, amount)]
        ELSE c1

addDamageDone(c, row, amount, resolution) ==
    [c EXCEPT !.DamageBySource = MapAdd(@, row.SourceName, amount),
              !.DamageDoneOverTime =
                  MapAdd(@, Truncate(row.Timestamp, resolution), amount)]

\* row.HealSuffix.Amount is read through the pointer: nil panics
addHealing(c, row, resolution) ==
    IF row.HealSuffix = NIL THEN Err
    ELSE Ok([c EXCEPT
               !.HealingBySource = MapAdd(@, row.SourceName, row.HealSuffix.Amount),
               !.HealingpDoneOverTime =
                   MapAdd(@, Truncate(row.Timestamp, resolution), row.HealSuffix.Amount)])

\* the interrupt count forgotten
addOverlayDispellOnly(c, row) ==
    [c EXCEPT !.DispellsBySource = MapAdd(@, row.SourceName, U64(1))]

addOverlay(c, row) ==
    [c EXCEPT !.DispellsBySource = MapAdd(@, row.SourceName, U64(1)),
              !.InterruptsBySource = MapAdd(@, row.SourceName, U64(1))]

\* handleEvent: the SummaryStats after the record, or a panic
handleEvent(c, row, resolution) ==
    IF isDamageEvent(row) THEN
        LET amount == damageAmount(row)
            c1 == updateEncounter(c, row, resolution)
        IN  IF isDamageTaken(row) THEN Ok(addDamageTaken(c1, row, amount, resolution))
            ELSE IF isDamageDone(row) THEN Ok(addDamageDone(c1, row, amount, resolution))
            ELSE Ok(c1)
    ELSE IF isHealingEvent(row) THEN
        IF isPlayerID(row.SourceID) THEN addHealing(c, row, resolution) ELSE Ok(c)
    ELSE IF isOverlayEvent(row) THEN Ok(addOverlay(c, row))
    ELSE Ok(c)

\* the loop of Run from data[k] (1-based) on, s being the statistics so far
RECURSIVE runFrom(_, _, _, _)
runFrom(s, data, k, resolution) ==
    IF ~s.ok THEN Err
    ELSE IF k > Len(data) THEN s
    ELSE IF data[k] = NIL THEN Err
    ELSE runFrom(handleEvent(s.v, data[k], resolution), data, k + 1, resolution)

\* Collector.Run(data): the statistics, or a panic
Run(data, resolution) == runFrom(Ok(NewSummaryStats), data, 1, resolution)

(***************************************************************************)
(* The log file and bufio.Scanner                                          *)
(***************************************************************************)

\* rowsInFile: the number of '\n' bytes in the file
rowsInFile(f) == Cardinality({k \in 1..Len(f) : SubSeq(f, k, k) = "\n"})

\* bufio.ScanLines drops one trailing '\r' of a line
dropCR(l) ==
    IF Len(l) > 0 /\ SubSeq(l, Len(l), Len(l)) = "\r" THEN SubSeq(l, 1, Len(l) - 1)
    ELSE l

\* the lines s.Scan() yields: the file cut at each '\n'; a last line without
\* a newline is yielded when it is not empty
ScanLines(f) ==
    LET parts == Split(f, "\n")
        kept  == IF parts[Len(parts)] = "" THEN SubSeq(parts, 1, Len(parts) - 1)
                 ELSE parts
    IN  [k \in 1..Len(kept) |-> dropCR(kept[k])]

(***************************************************************************)
(* Inputs: log lines in the 3.3.5a combat log format                       *)
(***************************************************************************)

Actor(id, name) == [id |-> id, name |-> name]

Alice     == Actor("0x0700000000000001", "Alice")
Bob       == Actor("0x0700000000000002", "Bob")
Carol     == Actor("0x0700000000000003", "Carol")
Ghoul     == Actor("0xF130008F04000010", "Ghoul")
Rotface   == Actor("0xF150008F04000002", "Rotface")
Festergut == Actor("0xF130008EF5000003", "Festergut")
Wolf      == Actor("0xF140000012000004", "Wolf")

\* time-of-day stamps in three consecutive 30 s buckets (T1 and T1b share one)
T0  == "10/21 20:14:50.500"
T1  == "10/21 20:15:32.123"
T1b == "10/21 20:15:45.900"
T2  == "10/21 20:16:05.000"

\* one line: the stamp, two spaces, then the comma-separated event data
Line(ts, eventType, src, tgt, payload) ==
    ts \o "  " \o eventType \o "," \o src.id \o ",\"" \o src.name \o "\",0x511,"
       \o tgt.id \o ",\"" \o tgt.name \o "\",0x10a48" \o payload

SpellFields(school) == ",48782,\"Holy Light\"," \o school
DamageFields(amount, resisted, blocked, absorbed, critical) ==
    "," \o amount \o ",0,1," \o resisted \o "," \o blocked \o "," \o absorbed
        \o "," \o critical \o ",nil,nil"

\* the fields that follow the target flags in a line of each event type
Payload(eventType, amount) ==
    CASE eventType \in {UnitDied, PartyKill} -> ""
      [] eventType \in {SwingDamage} -> DamageFields(amount, "0", "0", "0", "nil")
      [] eventType = SwingMissed -> ",DODGE"
      [] eventType = EnvironmentalDamage ->
            ",FALLING" \o DamageFields(amount, "0", "0", "0", "nil")
      [] eventType \in {EnchantApplied, EnchantRemoved} ->
            ",\"Windfury\",33307,\"Doomhammer\""
      [] eventType \in {SpellDamage, SpellPeriodicDamage, DamageShield, DamageSplit,
                        RangeDamage} ->
            SpellFields("0x2") \o DamageFields(amount, "0", "0", "0", "nil")
      [] eventType \in {SpellDrain, SpellPeriodicLeech} ->
            SpellFields("0x20") \o "," \o amount \o ",0,25"
      [] eventType \in {RangeMissed, SpellMissed, SpellPeriodicMissed,
                        DamageShieldMissed} -> SpellFields("0x2") \o ",RESIST"
      [] eventType \in {SpellAuraApplied, SpellAuraRemoved, SpellAuraRefresh} ->
            SpellFields("0x2") \o ",BUFF"
      [] eventType \in {SpellAuraAppliedDose, SpellAuraRemovedDose} ->
            SpellFields("0x2") \o ",DEBUFF,2"
      [] eventType \in {SpellHeal, SpellPeriodicHeal} ->
            SpellFields("0x2") \o "," \o amount \o ",0,0,nil"
      [] eventType \in {SpellEnergize, SpellPeriodicEnergize} ->
            SpellFields("0x2") \o "," \o amount \o ",0"
      [] eventType \in {SpellInterrupt} ->
            SpellFields("0x1") \o ",48465,\"Starfire\",64"
      [] eventType \in {SpellDispell, "SPELL_STOLEN"} ->
            SpellFields("0x2") \o ",48465,\"Starfire\",0x40,BUFF"
      [] eventType = SpellExtraAttacks -> SpellFields("0x1") \o "," \o amount
      [] eventType = SpellCastFailed -> SpellFields("0x2") \o ",\"Out of range\""
      [] OTHER -> SpellFields("0x2")

(***************************************************************************)
(* Parser.Parse followed by Collector.Run                                  *)
(***************************************************************************)

VARIABLES
    file,        \* the content of the log file
    pc,          \* "open", "scan", "parsed", "failed", "run", "done", "panic"
    out,         \* Parse's slice of record pointers
    i,           \* Parse's line counter
    unknownLog,  \* the number of "unknown eventType" lines printed
    stats,       \* Run's SummaryStats
    j,           \* the number of records Run has handled
    err,         \* the error Parse returned, NIL for none
    cbs,         \* the listener's map from event type to callback
    regs,        \* the AddEventListener calls made, in order: <<event, callback>>
    calls        \* the callback invocations made, in order: <<callback, record>>

vars == <<file, pc, out, i, unknownLog, stats, j, err, cbs, regs, calls>>

\* NewEventListener: cbs: map[EventType]CombatLogRecordCallback{}
NewEventListener == << >>

\* listener.AddEventListener(event, cb): e.cbs[event] = cb
AddEventListener(event, cb) ==
    /\ pc = "open"
    /\ cbs' = IF event \in DOMAIN cbs THEN [cbs EXCEPT ![event] = cb]
              ELSE (event :> cb) @@ cbs
    /\ regs' = Append(regs, <<event, cb>>)
    /\ UNCHANGED <<file, pc, out, i, unknownLog, stats, j, err, calls>>

\* listener.Get(event): the callback and whether the key is in the map
ListenerGet(event) ==
    IF event \in DOMAIN cbs THEN [cb |-> cbs[event], ok |-> TRUE]
    ELSE [cb |-> NIL, ok |-> FALSE]

\* the error of a failed os.Open
OpenError == [error |-> "open"]

\* f, err := os.Open(p.LogFile); if err != nil { return empty, err }
OpenFails ==
    /\ pc = "open"
    /\ pc' = "failed"
    /\ err' = OpenError
    /\ out' = << >>
    /\ UNCHANGED <<file, i, unknownLog, stats, j, cbs, regs, calls>>

\* rows, err := rowsInFile(f); out := make([]*CombatLogRecord, rows)
Open ==
    /\ pc = "open"
    /\ out' = [k \in 1..rowsInFile(file) |-> NIL]
    /\ i' = 0
    /\ pc' = "scan"
    /\ UNCHANGED <<file, unknownLog, stats, j, err, cbs, regs, calls>>

\* out[i] = &v; if cb, ok := p.EventListener.Get(v.EventType); ok { cb(v) };
\* i++ for the record v that parseRow returned; a panic in parseRow, or an
\* index past the end of out, ends the program
Store(v) ==
    /\ unknownLog' = IF v.ok /\ PrintsUnknown(v.v.EventType)
                     THEN unknownLog + 1 ELSE unknownLog
    /\ IF v.ok /\ i + 1 <= Len(out)
       THEN /\ out' = [out EXCEPT ![i + 1] = v.v]
            /\ calls' = IF ListenerGet(v.v.EventType).ok
                        THEN Append(calls, <<ListenerGet(v.v.EventType).cb, v.v>>)
                        ELSE calls
            /\ i' = i + 1
            /\ pc' = "scan"
       ELSE /\ pc' = "panic"
            /\ UNCHANGED <<out, i, calls>>

\* one iteration of for s.Scan(): v := parseRow(start, s.Text()), then the
\* store
ScanLine ==
    /\ pc = "scan"
    /\ i < Len(ScanLines(file))
    /\ Store(parseRow(RefYear, ScanLines(file)[i + 1]))
    /\ UNCHANGED <<file, stats, j, err, cbs, regs>>

\* s.Scan() is false: return out, nil
ParseReturn ==
    /\ pc = "scan"
    /\ i = Len(ScanLines(file))
    /\ pc' = "parsed"
    /\ err' = NIL
    /\ UNCHANGED <<file, out, i, unknownLog, stats, j, cbs, regs, calls>>

\* Collector.Run(data) on the slice Parse returned: s := &SummaryStats{...}
RunStart ==
    /\ pc = "parsed"
    /\ stats' = NewSummaryStats
    /\ j' = 0
    /\ pc' = "run"
    /\ UNCHANGED <<file, out, i, unknownLog, err, cbs, regs, calls>>

\* the effect of one handleEvent call that returned r
Handled(r) ==
    IF r.ok
    THEN /\ stats' = r.v
         /\ j' = j + 1
         /\ pc' = "run"
    ELSE /\ pc' = "panic"
         /\ UNCHANGED <<stats, j>>

\* one iteration of for i := range data: s.handleEvent(*data[i], resolution);
\* *data[i] of a nil entry panics
RunStep ==
    /\ pc = "run"
    /\ j < Len(out)
    /\ Handled(IF out[j + 1] = NIL THEN Err
               ELSE handleEvent(stats, out[j + 1], TimeResolution))
    /\ UNCHANGED <<file, out, i, unknownLog, err, cbs, regs, calls>>

\* return s
RunReturn ==
    /\ pc = "run"
    /\ j = Len(out)
    /\ pc' = "done"
    /\ UNCHANGED <<file, out, i, unknownLog, stats, j, err, cbs, regs, calls>>

Next ==
    Open \/ OpenFails \/ ScanLine \/ ParseReturn \/ RunStart \/ RunStep \/ RunReturn

\* the state when Parse is called on a file
Start(f) ==
    /\ file = f
    /\ pc = "open"
    /\ out = <<>>
    /\ i = 0
    /\ unknownLog = 0
    /\ stats = NIL
    /\ j = 0
    /\ err = NIL
    /\ cbs = NewEventListener
    /\ regs = << >>
    /\ calls = << >>

\* a file of the given lines, each ended by a newline except, when
\* finalNewline is false, the last
RECURSIVE FileOf(_, _)
FileOf(lines, finalNewline) ==
    IF Len(lines) = 0 THEN ""
    ELSE IF Len(lines) = 1 THEN lines[1] \o (IF finalNewline THEN "\n" ELSE "")
    ELSE lines[1] \o "\n" \o FileOf(Tail(lines), finalNewline)

SeqsUpTo(S, n) == UNION {[1..k -> S] : k \in 0..n}

(***************************************************************************)
(* Spec: Parse and Run on every file of at most MaxLines lines of LogLines *)
(***************************************************************************)

MaxLines == 3

\* the three lines of the end-to-end scenario
SwingLine == Line(T1, SwingDamage, Alice, Rotface, Payload(SwingDamage, "500"))
HealLine  == Line(T1, SpellHeal, Bob, Carol, Payload(SpellHeal, "300"))
AuraLine  == Line(T1, SpellAuraApplied, Alice, Alice, Payload(SpellAuraApplied, ""))

\* a line of an event type the parser does not know
StolenLine == Line(T1b, "SPELL_STOLEN", Bob, Ghoul, Payload("SPELL_STOLEN", ""))

\* a line whose damage amount is not a number
BadAmountLine == Line(T1, SwingDamage, Alice, Ghoul, Payload(SwingDamage, "abc"))

LogLines ==
    { SwingLine, HealLine, AuraLine, StolenLine, BadAmountLine,
      Line(T2, SpellDamage, Ghoul, Alice, Payload(SpellDamage, "200")),
      Line(T0, SwingDamage, Alice, Rotface, Payload(SwingDamage, "700")) }

Init ==
    \E lines \in SeqsUpTo(LogLines, MaxLines), finalNewline \in BOOLEAN :
        Start(FileOf(lines, finalNewline))

Spec == Init /\ [][Next]_vars

(***************************************************************************)
(* SpecRow: Parse and Run on one-line files, one for every event type and  *)
(* for every spelling of the damage modifiers, and on two-line files that  *)
(* write one spell school in hexadecimal and in decimal                    *)
(***************************************************************************)

\* tags the parser's switch has no case for
UnknownTags == {"SPELL_STOLEN", "SPELL_BUILDING_DAMAGE"}

\* the event types parsed with a damage suffix, and the prefix fields of each
DamageSuffixTypes == {SwingDamage, SpellDamage, EnvironmentalDamage}
PrefixFields(eventType) ==
    IF eventType = SwingDamage THEN ""
    ELSE IF eventType = EnvironmentalDamage THEN ",FALLING"
    ELSE SpellFields("0x2")

ModifierTokens == {"0", "25", "nil"}
CriticalTokens == {"nil", "1"}

TypeLines ==
    {Line(T1, et, p[1], p[2], Payload(et, "500")) :
        et \in EventTypes \cup UnknownTags,
        p \in {<<Alice, Rotface>>, <<Ghoul, Alice>>}}

ModifierLines ==
    {Line(T1, et, Alice, Ghoul,
          PrefixFields(et) \o DamageFields("500", m[1], m[2], m[3], m[4])) :
        et \in DamageSuffixTypes,
        m \in ModifierTokens \X ModifierTokens \X ModifierTokens \X CriticalTokens}

MalformedLines ==
    { "",
      "10/21 20:15:32.123",
      "10/21 20:15:32.123  SWING_DAMAGE,0x0700000000000001,\"Alice\"",
      "10/21 20:15:32  " \o SwingDamage \o ",a,\"b\",0,c,\"d\",0"
          \o Payload(SwingDamage, "500"),
      Line(T1, SwingDamage, Alice, Ghoul, DamageFields("500", "abc", "0", "0", "nil")),
      Line(T1, SpellDamage, Alice, Ghoul, DamageFields("500", "0", "0", "0", "nil")) }

\* lines whose event data holds the two-space separator inside a quoted name
BigBoss == Actor("0xF130008F04000020", "Big  Boss")
SpacedLines ==
    { Line(T1, SwingDamage, Alice, BigBoss, Payload(SwingDamage, "500")),
      Line(T1, UnitDied, Alice, BigBoss, Payload(UnitDied, "")) }

\* lines with a token in a numeric field that is no number of the field's
\* grammar: a negative amount, overkill and spell ID (unsigned fields), a
\* word that contains the sentinel, letters, and a school that is no number
BadTokenLines ==
    { Line(T1, SwingDamage, Alice, Ghoul, DamageFields("-5", "0", "0", "0", "nil")),
      Line(T1, SwingDamage, Alice, Ghoul,
           ",500,-1,1,0,0,0,nil,nil,nil"),
      Line(T1, SpellDamage, Alice, Ghoul,
           ",-48782,\"Holy Light\",0x2" \o DamageFields("500", "0", "0", "0", "nil")),
      Line(T1, SwingDamage, Alice, Ghoul, DamageFields("500", "vanilla", "0", "0", "nil")),
      Line(T1, SwingDamage, Alice, Ghoul, DamageFields("5x", "0", "0", "0", "nil")),
      Line(T1, SpellDamage, Alice, Ghoul,
           SpellFields("0xZZ") \o DamageFields("500", "0", "0", "0", "nil")) }

RowLines ==
    TypeLines \cup ModifierLines \cup MalformedLines \cup SpacedLines \cup BadTokenLines

\* the largest declared SpellSchool (Fel)
MaxSchool == 127

\* strconv.FormatInt(n, 16)
RECURSIVE FormatHexDigits(_)
FormatHexDigits(n) ==
    LET c == SubSeq("0123456789abcdef", (n % 16) + 1, (n % 16) + 1)
    IN  IF n < 16 THEN c ELSE FormatHexDigits(n \div 16) \o c

\* the school v as the log writes it, 0x-prefixed, and in decimal
HexForm(v) == "0x" \o FormatHexDigits(v)
DecimalForm(v) == FormatDec(v)

SchoolLine(school) ==
    Line(T1, SpellDamage, Alice, Ghoul,
         SpellFields(school) \o DamageFields("500", "0", "0", "0", "nil"))

SchoolFile(v) == FileOf(<<SchoolLine(HexForm(v)), SchoolLine(DecimalForm(v))>>, TRUE)
SchoolFiles == {SchoolFile(v) : v \in 0..MaxSchool}

InitRow ==
    \/ \E l \in RowLines : Start(FileOf(<<l>>, TRUE))
    \/ \E f \in SchoolFiles : Start(f)

SpecRow == InitRow /\ [][Next]_vars

(***************************************************************************)
(* SpecAgg: Parse and Run on files that end with a line of any aggregated  *)
(* event type between any two actors, after at most MaxPrefix earlier      *)
(* lines                                                                   *)
(***************************************************************************)

MaxPrefix == 1

CoreLines ==
    { SwingLine, AuraLine,
      Line(T0, SwingDamage, Bob, Rotface, Payload(SwingDamage, "700")),
      Line(T2, SpellDamage, Alice, Rotface, Payload(SpellDamage, "900")),
      Line(T2, SpellDamage, Ghoul, Alice, Payload(SpellDamage, "200")) }

AggTypes ==
    DamageEvents \cup HealEvents \cup OverlayEvents
        \cup {SwingMissed, EnvironmentalDamage, "SPELL_STOLEN"}

Sources == {Alice, Ghoul, Rotface, Wolf}
Targets == {Bob, Ghoul, Rotface, Festergut, Wolf}

AggLines ==
    {Line(T1, et, src, tgt, Payload(et, "500")) :
        et \in AggTypes, src \in Sources, tgt \in Targets}

InitAgg ==
    \E pre \in SeqsUpTo(CoreLines, MaxPrefix), l \in AggLines :
        Start(FileOf(pre \o <<l>>, TRUE))

SpecAgg == InitAgg /\ [][Next]_vars

(***************************************************************************)
(* SpecHook: callbacks are registered on the parser's listener, then Parse *)
(* and Run go over every file of at most MaxHookLines lines                *)
(***************************************************************************)

MaxRegs == 2
MaxHookLines == 2

\* the callbacks a caller registers, and the event types it registers them for
Callbacks == {"f", "g"}
HookTypes == {SwingDamage, SpellHeal}

HookLines == {SwingLine, HealLine, AuraLine}

\* a call of p.EventListener.AddEventListener before Parse is called
Register ==
    /\ Len(regs) < MaxRegs
    /\ \E event \in HookTypes, cb \in Callbacks : AddEventListener(event, cb)

NextHook == Register \/ Next

InitHook ==
    \E lines \in SeqsUpTo(HookLines, MaxHookLines), finalNewline \in BOOLEAN :
        Start(FileOf(lines, finalNewline))

SpecHook == InitHook /\ [][NextHook]_vars

(***************************************************************************)
(* Properties                                                              *)
(***************************************************************************)

\* the records Parse has stored so far
Stored == {out[k] : k \in 1..Len(out)} \ {NIL}

\* the members of a record that are populated
PopulatedPrefix(r) == {m \in PrefixMembers : r[m] # NIL}
PopulatedSuffix(r) == {m \in SuffixMembers : r[m] # NIL}

\* the payload table of the record model: the prefix member and the suffix
\* member of each event type ({} for none)
SpellPrefixTypes ==
    { DamageShield, DamageShieldMissed, DamageSplit, RangeDamage, RangeMissed,
      SpellAuraApplied, SpellAuraAppliedDose, SpellAuraRefresh, SpellAuraRemoved,
      SpellAuraRemovedDose, SpellCastFailed, SpellCastStart, SpellCastSuccess,
      SpellCreate, SpellDamage, SpellDispell, SpellDrain, SpellEnergize,
      SpellExtraAttacks, SpellHeal, SpellInterrupt, SpellMissed,
      SpellPeriodicDamage, SpellPeriodicEnergize, SpellPeriodicHeal,
      SpellPeriodicLeech, SpellPeriodicMissed, SpellResurrect, SpellSummon }

TablePrefix(eventType) ==
    IF eventType \in SpellPrefixTypes THEN {"SpellAndRangePrefix"}
    ELSE IF eventType \in {EnchantApplied, EnchantRemoved} THEN {"EnchantPrefix"}
    ELSE IF eventType = EnvironmentalDamage THEN {"EnvironmentalPrefix"}
    ELSE {}

TableSuffix(eventType) ==
    IF eventType \in {SwingDamage, SpellDamage, SpellPeriodicDamage, DamageShield,
                      DamageSplit, RangeDamage, EnvironmentalDamage}
        THEN {"DamageSuffix"}
    ELSE IF eventType \in {SwingMissed, RangeMissed, SpellMissed, SpellPeriodicMissed,
                           DamageShieldMissed} THEN {"MissSuffix"}
    ELSE IF eventType \in {SpellAuraApplied, SpellAuraAppliedDose, SpellAuraRefresh,
                           SpellAuraRemoved} THEN {"AuraSuffix"}
    ELSE IF eventType \in {SpellHeal, SpellPeriodicHeal} THEN {"HealSuffix"}
    ELSE IF eventType \in {SpellEnergize, SpellPeriodicEnergize} THEN {"EnergizeSuffix"}
    ELSE IF eventType \in {SpellDrain, SpellPeriodicLeech} THEN {"LeechOrDrainSuffix"}
    ELSE IF eventType = SpellInterrupt THEN {"InterruptSuffix"}
    ELSE IF eventType = SpellExtraAttacks THEN {"ExtraAttacksSuffix"}
    ELSE IF eventType = SpellDispell THEN {"DispelOrStolenSuffix"}
    ELSE {}

\* C1: every record of a recognized event type has exactly the prefix member
\* and the suffix member the table fixes for its type populated: at most one
\* prefix member and at most one suffix member in any record, and neither in
\* a UNIT_DIED, SPELL_INSTAKILL or PARTY_KILL record.
C1_PayloadShape ==
    \A r \in Stored :
        /\ Cardinality(PopulatedPrefix(r)) <= 1
        /\ Cardinality(PopulatedSuffix(r)) <= 1
        /\ r.EventType \in EventTypes =>
              /\ PopulatedPrefix(r) = TablePrefix(r.EventType)
              /\ PopulatedSuffix(r) = TableSuffix(r.EventType)
        /\ r.EventType \in {UnitDied, SpellInstakill, PartyKill} =>
              PopulatedPrefix(r) = {} /\ PopulatedSuffix(r) = {}

\* a record with both a prefix member and a suffix member was parsed
C1_Witness ==
    \E r \in Stored :
        /\ r.EventType = EnvironmentalDamage
        /\ PopulatedPrefix(r) = {"EnvironmentalPrefix"}
        /\ PopulatedSuffix(r) = {"DamageSuffix"}

\* C2: a spell school written in 0x-prefixed hexadecimal parses, and parses
\* to the SpellSchool its decimal form parses to.
C2_HexEqualsDecimal ==
    file \in SchoolFiles =>
        /\ pc # "panic"
        /\ i = 2 => out[1].SpellAndRangePrefix.SpellSchool
                        = out[2].SpellAndRangePrefix.SpellSchool

\* the comma-separated fields of the event data of a line
FieldsOf(data) == Split(Split(data, "  ")[2], ",")

\* the line Parse reads next, while it is scanning
AtLine == pc = "scan" /\ i < Len(ScanLines(file))
CurrentLine == ScanLines(file)[i + 1]

\* the index of the first damage-suffix field in a line of ModifierLines
SuffixOffset(eventType) ==
    IF eventType = SwingDamage THEN 7
    ELSE IF eventType = EnvironmentalDamage THEN 8 ELSE 10

\* what the sentinel stands for in 0-based field k of a damage suffix d
SentinelRead(d, k) ==
    CASE k = 3 -> d.Resisted = U64(0)
      [] k = 4 -> d.Blocked = U64(0)
      [] k = 5 -> d.Absorbed = U64(0)
      [] k = 6 -> d.Critical = FALSE

SentinelStep(line) ==
    LET f == FieldsOf(line)
        off == SuffixOffset(f[1])
    IN  /\ pc' = "scan"
        /\ out'[i + 1].DamageSuffix # NIL
        /\ \A k \in 3..6 :
              f[off + k + 1] = "nil" => SentinelRead(out'[i + 1].DamageSuffix, k)

\* C3: a line with a damage suffix whose resisted, blocked, absorbed or
\* critical field is the sentinel "nil" (the other fields being numbers) is
\* parsed, not aborted, and the field reads 0, the critical flag false.
C3_NilSentinel ==
    [][(AtLine /\ CurrentLine \in ModifierLines) => SentinelStep(CurrentLine)]_vars

\* a record was parsed from a line with the sentinel in all four fields
C3_Witness ==
    /\ i = 1
    /\ ScanLines(file)[1] =
          Line(T1, SpellDamage, Alice, Ghoul,
               SpellFields("0x2") \o DamageFields("500", "nil", "nil", "nil", "nil"))
    /\ out[1].DamageSuffix.Resisted = U64(0)
    /\ out[1].DamageSuffix.Critical = FALSE

\* the value a map holds for a key, the zero value for a missing key
Get(m, k) == IF k \in DOMAIN m THEN m[k] ELSE U64(0)

\* the file of the end-to-end scenario, and the bucket of its time T
ScenarioFile == FileOf(<<SwingLine, HealLine, AuraLine>>, TRUE)
ScenarioBucket == <<10, 21, ((20 * 60 + 15) * 60 + 30) * 1000>>

\* C4: Parse and Run on the three-line log (SWING_DAMAGE of 500 from Alice to
\* the boss Rotface, SPELL_HEAL of 300 from Bob to Carol, SPELL_AURA_APPLIED
\* from Alice, all at T) end with DamageBySource[Alice] = 500,
\* DamageDoneOverTime[bucket(T)] = 500, Rotface's encounter = [bucket(T),
\* bucket(T)], HealingBySource[Bob] = 300, InterruptsBySource[Alice] = 1 and
\* DispellsBySource[Alice] = 1.
C4_EndToEnd ==
    (file = ScenarioFile /\ pc \in {"done", "panic"}) =>
        /\ pc = "done"
        /\ Get(stats.DamageBySource, "Alice") = U64(500)
        /\ Get(stats.DamageDoneOverTime, ScenarioBucket) = U64(500)
        /\ "Rotface" \in DOMAIN stats.EncounterOverlays
        /\ stats.EncounterOverlays["Rotface"] =
              [StartTime |-> ScenarioBucket, EndTime |-> ScenarioBucket]
        /\ Get(stats.HealingBySource, "Bob") = U64(300)
        /\ Get(stats.InterruptsBySource, "Alice") = U64(1)
        /\ Get(stats.DispellsBySource, "Alice") = U64(1)

\* Run has returned the statistics of the scenario
C4_Witness == file = ScenarioFile /\ pc = "done" /\ j = 3

\* a step of Run that handled the record Row
Handling == pc = "run" /\ j < Len(out) /\ pc' = "run" /\ j' = j + 1
Row == out[j + 1]
RowBucket == Truncate(Row.Timestamp, TimeResolution)

\* map m2 is map m with amount added under key k
AddedTo(m, m2, k, amount) ==
    /\ DOMAIN m2 = DOMAIN m \cup {k}
    /\ m2[k] = Add64(Get(m, k), amount)
    /\ \A o \in DOMAIN m : o # k => m2[o] = m[o]

DamageDoneTotals == {"DamageBySource", "DamageDoneOverTime"}
DamageTakenTotals ==
    {"DamageTakenBySource", "DamageTakenOverTime", "DamageTakenBySpell"}
HealingTotals == {"HealingBySource", "HealingpDoneOverTime"}
OverlayTotals == {"InterruptsBySource", "DispellsBySource"}

\* player source, NPC or boss target
PlayerOnEnemy(r) ==
    isPlayerID(r.SourceID) /\ (isNPCID(r.TargetID) \/ isBossID(r.TargetID))

\* boss or NPC source, player target
EnemyOnPlayer(r) ==
    (isBossID(r.SourceID) \/ isNPCID(r.SourceID)) /\ isPlayerID(r.TargetID)

\* C5: a damage-category record changes DamageBySource and DamageDoneOverTime
\* only when its source is a player and its target an NPC or a boss; with any
\* other source/target combination that is not damage taken it changes no
\* damage-done, damage-taken or per-spell total.
C5_DamageDoneOnlyByPlayers ==
    [][(Handling /\ isDamageEvent(Row)) =>
          /\ (\E f \in DamageDoneTotals : stats'[f] # stats[f]) => PlayerOnEnemy(Row)
          /\ (~PlayerOnEnemy(Row) /\ ~EnemyOnPlayer(Row)) =>
                \A f \in DamageDoneTotals \cup DamageTakenTotals : stats'[f] = stats[f]
      ]_vars

\* the amount of a damage record: extra-attack, else damage suffix, else 0
AmountOf(r) ==
    IF "ExtraAttacksSuffix" \in PopulatedSuffix(r) THEN r.ExtraAttacksSuffix.Amount
    ELSE IF "DamageSuffix" \in PopulatedSuffix(r) THEN r.DamageSuffix.Amount
    ELSE U64(0)

\* C6: a damage-category record from a boss or NPC to a player adds its amount
\* to DamageTakenBySource[source name] and DamageTakenOverTime[bucket], adds
\* it to DamageTakenBySpell[spell name] exactly when it has a spell/range
\* prefix, and leaves DamageBySource and DamageDoneOverTime as they were.
C6_DamageTaken ==
    [][(Handling /\ isDamageEvent(Row) /\ EnemyOnPlayer(Row)) =>
          /\ AddedTo(stats.DamageTakenBySource, stats'.DamageTakenBySource,
                     Row.SourceName, AmountOf(Row))
          /\ AddedTo(stats.DamageTakenOverTime, stats'.DamageTakenOverTime,
                     RowBucket, AmountOf(Row))
          /\ IF "SpellAndRangePrefix" \in PopulatedPrefix(Row)
             THEN AddedTo(stats.DamageTakenBySpell, stats'.DamageTakenBySpell,
                          Row.SpellAndRangePrefix.SpellName, AmountOf(Row))
             ELSE stats'.DamageTakenBySpell = stats.DamageTakenBySpell
          /\ \A f \in DamageDoneTotals : stats'[f] = stats[f]
      ]_vars

\* an extra-attack record from the NPC to a player has been counted as taken,
\* after an earlier record of damage taken in another bucket
C6_Witness ==
    /\ pc = "run" /\ j = 2
    /\ out[2].EventType = SpellExtraAttacks
    /\ out[2].SourceName = "Ghoul"
    /\ stats.DamageTakenBySource = ("Ghoul" :> U64(700))
    /\ Get(stats.DamageTakenBySpell, "Holy Light") = U64(700)
    /\ Cardinality(DOMAIN stats.DamageTakenOverTime) = 2

\* the encounter of the boss named by Row, before and after the step
Span == stats.EncounterOverlays[Row.TargetName]
SpanAfter == stats'.EncounterOverlays[Row.TargetName]

\* the step leaves every encounter but Row's target's as it was
OtherSpansKept ==
    /\ DOMAIN stats'.EncounterOverlays = DOMAIN stats.EncounterOverlays \cup {Row.TargetName}
    /\ \A b \in DOMAIN stats.EncounterOverlays :
          b # Row.TargetName => stats'.EncounterOverlays[b] = stats.EncounterOverlays[b]

\* C7 as stated: the first damage-category record targeting a boss name
\* creates the span [t, t]; every later one leaves the start unchanged, and
\* the end never moves backwards.
C7_EndNeverMovesBack ==
    [][(Handling /\ isDamageEvent(Row) /\ isBossName(Row.TargetName)) =>
          IF Row.TargetName \notin DOMAIN stats.EncounterOverlays
          THEN SpanAfter = [StartTime |-> RowBucket, EndTime |-> RowBucket]
          ELSE /\ SpanAfter.StartTime = Span.StartTime
               /\ ~Before(SpanAfter.EndTime, Span.EndTime)
      ]_vars

\* C7 amended: the first damage-category record targeting a boss name creates
\* the span [t, t] at its truncated timestamp; every later one leaves the
\* start unchanged and sets the end to its own truncated timestamp, later or
\* earlier than the end before; no other encounter changes, and no other
\* record changes an encounter.
C7_EndIsLastRecord ==
    [][Handling =>
          IF isDamageEvent(Row) /\ isBossName(Row.TargetName)
          THEN /\ OtherSpansKept
               /\ IF Row.TargetName \notin DOMAIN stats.EncounterOverlays
                  THEN SpanAfter = [StartTime |-> RowBucket, EndTime |-> RowBucket]
                  ELSE SpanAfter = [StartTime |-> Span.StartTime, EndTime |-> RowBucket]
          ELSE stats'.EncounterOverlays = stats.EncounterOverlays
      ]_vars

\* a second record targeting the boss moved the end of its span to a bucket
\* before its start
C7_Witness ==
    /\ pc = "run" /\ j = 2
    /\ "Rotface" \in DOMAIN stats.EncounterOverlays
    /\ Before(stats.EncounterOverlays["Rotface"].EndTime,
              stats.EncounterOverlays["Rotface"].StartTime)

AllTotals ==
    DamageDoneTotals \cup DamageTakenTotals \cup HealingTotals \cup OverlayTotals

\* C8: a healing-category record (SPELL_HEAL, SPELL_PERIODIC_HEAL,
\* SPELL_PERIODIC_LEECH) from a player adds its heal suffix's amount to
\* HealingBySource[source name] and HealingpDoneOverTime[bucket]; from any
\* other source it changes no total.
C8_Healing ==
    [][(Handling /\ isHealingEvent(Row)) =>
          IF isPlayerID(Row.SourceID)
          THEN /\ "HealSuffix" \in PopulatedSuffix(Row)
               /\ AddedTo(stats.HealingBySource, stats'.HealingBySource,
                          Row.SourceName, Row.HealSuffix.Amount)
               /\ AddedTo(stats.HealingpDoneOverTime, stats'.HealingpDoneOverTime,
                          RowBucket, Row.HealSuffix.Amount)
          ELSE \A f \in AllTotals : stats'[f] = stats[f]
      ]_vars

\* the records of out in the order p
Permuted(p) == [k \in 1..Len(out) |-> out[p[k]]]

SameTotals(r) == r.ok /\ \A f \in AllTotals : r.v[f] = stats[f]

\* C9: Run on any permutation of the records yields the totals Run yields on
\* the records in file order: the per-source, per-spell and per-bucket maps
\* and the interrupt and dispel counts agree; only EncounterOverlays may
\* differ.
C9_TotalsOrderIndependent ==
    pc = "done" =>
        \A p \in Permutations(1..Len(out)) : SameTotals(Run(Permuted(p), TimeResolution))

\* Run has returned for three records with distinct timestamps, of which some
\* order yields other encounters and two add different amounts to one key
C9_Witness ==
    /\ pc = "done" /\ Len(out) = 3
    /\ Get(stats.DamageBySource, "Alice") = U64(1200)
    /\ \A a, b \in 1..Len(out) : a # b => out[a].Timestamp # out[b].Timestamp
    /\ \E p \in Permutations(1..Len(out)) :
          Run(Permuted(p), TimeResolution).v.EncounterOverlays # stats.EncounterOverlays

\* the record of StolenLine: the header, and no prefix or suffix member
StolenRecord ==
    [k \in PrefixMembers \cup SuffixMembers |-> NIL] @@
    [Timestamp  |-> <<10, 21, ((20 * 60 + 15) * 60 + 45) * 1000 + 900>>,
     EventType  |-> "SPELL_STOLEN",
     SourceID   |-> "0x0700000000000002",
     SourceName |-> "Bob",
     TargetID   |-> "0xF130008F04000010",
     TargetName |-> "Ghoul"]

\* C10: a line with an unrecognized event-type tag does not abort the parse:
\* its record has the header populated and every prefix and suffix member
\* nil, it is stored (where out has a slot for the line), and Parse goes on
\* to the next line.
C10_UnknownTagTolerated ==
    [][(AtLine /\ CurrentLine = StolenLine /\ i < Len(out)) =>
          /\ pc' = "scan"
          /\ i' = i + 1
          /\ out'[i + 1] = StolenRecord
      ]_vars

\* a line was parsed after the line with the unrecognized tag
C10_Witness ==
    /\ i >= 2
    /\ out[1] = StolenRecord
    /\ out[2] # NIL /\ out[2].EventType = SwingDamage

\* the next line is one parseRow panics on
AtBadLine == AtLine /\ ~parseRow(RefYear, CurrentLine).ok

\* C11: a line whose timestamp or numeric field cannot be parsed makes Parse
\* return a non-nil error to its caller.
C11_ParseReturnsError ==
    [][AtBadLine => (pc' = "failed" /\ err' # NIL)]_vars

\* the callback of the last registration made for event, NIL when none was
LastRegistered(event) ==
    LET ks == {k \in 1..Len(regs) : regs[k][1] = event}
    IN  IF ks = {} THEN NIL
        ELSE [cb |-> regs[CHOOSE k \in ks : \A l \in ks : l <= k][2]]

\* the listener holds, for every event type, the callback registered last
LastRegistrationHeld ==
    \A event \in HookTypes :
        IF LastRegistered(event) = NIL THEN event \notin DOMAIN cbs
        ELSE event \in DOMAIN cbs /\ cbs[event] = LastRegistered(event).cb

\* the record parseRow builds of the line Parse reads next
CurrentRecord == parseRow(RefYear, CurrentLine).v

\* C12: the listener holds one callback per event type, the one registered
\* last; in the step that builds a record, the callback registered for the
\* record's event type is invoked once with that record, before the next
\* line is read; a record of a type without a registration invokes no
\* callback and raises no error.
C12_CallbackPerRecord ==
    [][/\ LastRegistrationHeld'
       /\ (AtLine /\ parseRow(RefYear, CurrentLine).ok) =>
             IF CurrentRecord.EventType \in DOMAIN cbs
             THEN calls' = Append(calls, <<cbs[CurrentRecord.EventType], CurrentRecord>>)
             ELSE calls' = calls /\ err' = NIL
      ]_vars

\* C13: no record is in more than one of the damage, healing and overlay
\* categories: at most one of isDamageEvent, isHealingEvent and
\* isOverlayEvent is true of it.
C13_BranchesExclusive ==
    \A r \in Stored :
        /\ ~(isDamageEvent(r) /\ isHealingEvent(r))
        /\ ~(isDamageEvent(r) /\ isOverlayEvent(r))
        /\ ~(isHealingEvent(r) /\ isOverlayEvent(r))

\* C14: an overlay-category record adds one to DispellsBySource[source name]
\* and one to InterruptsBySource[source name], whatever its source and target
\* IDs, and changes no damage, healing, over-time or encounter entry.
C14_OverlayCounts ==
    [][(Handling /\ isOverlayEvent(Row)) =>
          /\ AddedTo(stats.DispellsBySource, stats'.DispellsBySource,
                     Row.SourceName, U64(1))
          /\ AddedTo(stats.InterruptsBySource, stats'.InterruptsBySource,
                     Row.SourceName, U64(1))
          /\ \A f \in DamageDoneTotals \cup DamageTakenTotals \cup HealingTotals :
                stats'[f] = stats[f]
          /\ stats'.EncounterOverlays = stats.EncounterOverlays
      ]_vars

\* a unit-death record from an NPC on a boss was counted after an aura record
\* from a player, and no encounter was opened
C14_Witness ==
    /\ pc = "run" /\ j = 2
    /\ out[2].EventType = UnitDied
    /\ out[2].SourceName = "Ghoul" /\ out[2].TargetName = "Rotface"
    /\ stats.InterruptsBySource = ("Alice" :> U64(1)) @@ ("Ghoul" :> U64(1))
    /\ stats.DispellsBySource = stats.InterruptsBySource
    /\ stats.EncounterOverlays = EmptyMap

\* the records Run has handled arrived in non-decreasing timestamp order
InOrder == \A k \in 1..(j - 1) : ~Before(out[k + 1].Timestamp, out[k].Timestamp)

\* the damage-category records handled so far whose target name is boss
Hits(boss) == {k \in 1..j : isDamageEvent(out[k]) /\ out[k].TargetName = boss}
First(ks) == CHOOSE k \in ks : \A l \in ks : k <= l
Last(ks)  == CHOOSE k \in ks : \A l \in ks : l <= k
BucketOf(k) == Truncate(out[k].Timestamp, TimeResolution)

\* C18: while Run is fed records in non-decreasing timestamp order, after
\* every record each boss's span runs from the bucket of the first to the
\* bucket of the last damage-category record that targeted the boss's name,
\* whatever the IDs and the amount of those records, and StartTime <= EndTime.
C18_SpanFirstToLast ==
    (pc \in {"run", "done"} /\ InOrder) =>
        \A boss \in BossNames :
            IF Hits(boss) = {} THEN boss \notin DOMAIN stats.EncounterOverlays
            ELSE /\ boss \in DOMAIN stats.EncounterOverlays
                 /\ stats.EncounterOverlays[boss] =
                       [StartTime |-> BucketOf(First(Hits(boss))),
                        EndTime   |-> BucketOf(Last(Hits(boss)))]
                 /\ ~Before(stats.EncounterOverlays[boss].EndTime,
                            stats.EncounterOverlays[boss].StartTime)

\* a record without an amount, from a unit that is no player, NPC or boss,
\* moved the end of the span that an earlier record opened
C18_Witness ==
    /\ pc = "run" /\ j = 2 /\ InOrder
    /\ out[2].EventType = SpellInstakill
    /\ out[2].SourceName = "Wolf"
    /\ "Rotface" \in DOMAIN stats.EncounterOverlays
    /\ stats.EncounterOverlays["Rotface"].StartTime = BucketOf(1)
    /\ Before(BucketOf(1), stats.EncounterOverlays["Rotface"].EndTime)

\* C20: handleEvent never reads a missing heal suffix: a record that reaches
\* the healing branch has a HealSuffix; a SPELL_PERIODIC_LEECH record has a
\* leech/drain suffix and no heal suffix, is handled by the damage branch with
\* amount 0 and changes no healing total.
C20_HealSuffixPresent ==
    [][(pc = "run" /\ j < Len(out) /\ Row # NIL) =>
          /\ (~isDamageEvent(Row) /\ isHealingEvent(Row)) =>
                Row.HealSuffix # NIL /\ pc' = "run"
          /\ Row.EventType = SpellPeriodicLeech =>
                /\ isDamageEvent(Row)
                /\ Row.HealSuffix = NIL /\ Row.LeechOrDrainSuffix # NIL
                /\ AmountOf(Row) = U64(0)
                /\ pc' = "run"
                /\ \A f \in HealingTotals : stats'[f] = stats[f]
      ]_vars

\* a leech record from a player was handled: it added 0 to the player's damage
C20_Witness ==
    /\ pc = "run" /\ j = 1
    /\ out[1].EventType = SpellPeriodicLeech
    /\ isPlayerID(out[1].SourceID)
    /\ stats.DamageBySource = (out[1].SourceName :> U64(0))
    /\ stats.HealingBySource = EmptyMap

\* where the claim has the suffix of record r start: after the prefix
SuffixStart(r) ==
    IF PopulatedPrefix(r) = {} THEN 7
    ELSE IF "EnvironmentalPrefix" \in PopulatedPrefix(r) THEN 8
    ELSE 10

\* the first field of the suffix of r holds what token tok reads as
FirstSuffixFieldIs(r, tok) ==
    CASE "DamageSuffix" \in PopulatedSuffix(r) ->
            Ok(r.DamageSuffix.Amount) = mustParseUint(tok)
      [] "MissSuffix" \in PopulatedSuffix(r) -> r.MissSuffix.MissType = tok
      [] "HealSuffix" \in PopulatedSuffix(r) ->
            Ok(r.HealSuffix.Amount) = mustParseUint(tok)
      [] "EnergizeSuffix" \in PopulatedSuffix(r) ->
            Ok(r.EnergizeSuffix.Amount) = mustParseInt(tok)
      [] "ExtraAttacksSuffix" \in PopulatedSuffix(r) ->
            Ok(r.ExtraAttacksSuffix.Amount) = mustParseUint(tok)
      [] "AuraSuffix" \in PopulatedSuffix(r) ->
            r.AuraSuffix.AuraType = removeQuoteString(tok)
      [] "InterruptSuffix" \in PopulatedSuffix(r) ->
            Ok(r.InterruptSuffix.ExtraSpellID) = mustParseUint(tok)
      [] "DispelOrStolenSuffix" \in PopulatedSuffix(r) ->
            Ok(r.DispelOrStolenSuffix.ExtraSpellID) = mustParseUint(tok)
      [] "LeechOrDrainSuffix" \in PopulatedSuffix(r) ->
            Ok(r.LeechOrDrainSuffix.Amount) = mustParseUint(tok)
      [] OTHER -> TRUE

\* C15: the suffix of every record is read from the field right after its
\* prefix: from index 10 after a spell/range prefix, from index 8 after an
\* environmental prefix, and from index 7 only when there is no prefix; so
\* too for the miss suffix of SPELL_MISSED, RANGE_MISSED,
\* SPELL_PERIODIC_MISSED and DAMAGE_SHIELD_MISSED.
C15_SuffixAfterPrefix ==
    \A k \in 1..i :
        (ScanLines(file)[k] \in TypeLines /\ out[k] # NIL) =>
            FirstSuffixFieldIs(out[k], FieldsOf(ScanLines(file)[k])[SuffixStart(out[k]) + 1])

\* a line cut at its first two-space separator only
SplitFirst(data) ==
    <<SubSeq(data, 1, Index(data, "  ") - 1), From(data, Index(data, "  ") + 2)>>

\* C16: a line whose event data holds a double space is split at the first
\* separator only: the record has all the comma-separated fields of the
\* data after it, the quoted name with its double space among them.
C16_SplitAtFirstSeparator ==
    [][(AtLine /\ CurrentLine \in SpacedLines) =>
          /\ pc' = "scan"
          /\ Ok(out'[i + 1]) = parseSegments(RefYear, SplitFirst(CurrentLine))
          /\ out'[i + 1].TargetName = "Big  Boss"
      ]_vars

\* C17: a token in a numeric field that is neither a number of the field's
\* grammar nor, where allowed, the sentinel "nil" aborts the parse: a negative
\* number in an unsigned field and a word that contains "nil" are not turned
\* into a value.
C17_BadTokenAborts ==
    [][(AtLine /\ CurrentLine \in BadTokenLines) => pc' = "panic"]_vars

\* every line of the file is one parseRow returns a record for
WellFormed == \A k \in 1..Len(ScanLines(file)) : parseRow(RefYear, ScanLines(file)[k]).ok

\* C19: Parse of a file of n well-formed lines, with or without a newline
\* after the last, does not run past its slice, and returns n records, the
\* k-th being the parse of line k and none nil.
C19_OneRecordPerLine ==
    WellFormed =>
        /\ ~(pc = "panic" /\ stats = NIL)
        /\ pc = "parsed" =>
              /\ Len(out) = Len(ScanLines(file))
              /\ \A k \in 1..Len(out) : Ok(out[k]) = parseRow(RefYear, ScanLines(file)[k])

====
